---- MODULE Spec2Model ----
(***************************************************************************)
(* A model of src/app.py: the board normalizer, the probability and date   *)
(* helpers, the two metrics computations, module start-up and the /ask     *)
(* request handler.                                                        *)
(*                                                                         *)
(* Text is a sequence of one-character strings, so that trimming and       *)
(* parsing are computed and not assumed.  NaN and None are two sentinel    *)
(* cells that no text equals.  Probabilities and weighted values are kept  *)
(* in tenths (0.8 is 8); a mean is kept as the pair sum / count.           *)
(***************************************************************************)
EXTENDS Integers, Sequences, FiniteSets, TLC

VARIABLES
    env,            \* the four settings of the process environment
    pc,             \* position of the program
    deals_raw,      \* ask: deals_raw
    work_raw,       \* ask: work_raw
    deals_df,       \* ask: deals_df
    work_df,        \* ask: work_df
    deal_metrics,   \* ask: deal_metrics
    work_metrics,   \* ask: work_metrics
    deals_derived,  \* the columns value, prob, weighted written by lines 92-94
    board_status,   \* status code of the board API's answer, per board
    response,       \* what ask returned: status and body
    calls,          \* calls made by the current request, per collaborator
    summary_arg,    \* the structured_data generate_summary was called with
    summary_reply,  \* what the completion endpoint did on that call
    prob,           \* argument of normalize_probability
    prob_out        \* result of normalize_probability

vars == << env, pc, deals_raw, work_raw, deals_df, work_df, deal_metrics,
           work_metrics, deals_derived, board_status, response, calls, summary_arg,
           summary_reply, prob, prob_out >>

-----------------------------------------------------------------------------
(* Bounds of the model *)

MaxItems == 1
MaxRows == 2
MaxPad == 1

-----------------------------------------------------------------------------
(* Values *)

NaN == << "<NaN>" >>
None == << "<None>" >>
Unset == [unset |-> TRUE]

IsNull(cell) == cell = NaN \/ cell = None

Ok(v) == [raised |-> FALSE, value |-> v]
Raise(e) == [raised |-> TRUE, exc |-> e]

JNull == [t |-> "null"]
JObj(f) == [t |-> "obj", v |-> f]
JArr(s) == [t |-> "arr", v |-> s]

\* Python truth value of a JSON value
Truthy(j) ==
    CASE j.t = "null" -> FALSE
      [] j.t = "obj" -> DOMAIN j.v # {}
      [] j.t = "arr" -> Len(j.v) > 0

\* dict.get(key): None when the key is absent
DictGet(d, key) == IF key \in DOMAIN d THEN d[key] ELSE JNull

T_High == << "H", "i", "g", "h" >>
T_Medium == << "M", "e", "d", "i", "u", "m" >>
T_Low == << "L", "o", "w" >>
T_high == << "h", "i", "g", "h" >>
T_Open == << "O", "p", "e", "n" >>
T_Closed == << "C", "l", "o", "s", "e", "d" >>
T_Defense == << "D", "e", "f" >>
T_Energy == << "E", "n", "e" >>
T_Negotiation == << "N", "e", "g" >>
T_Lead == << "L", "e", "a", "d" >>
T_abc == << "a", "b", "c" >>
T_Done == << "D", "o", "n", "e" >>
T_Late == << "L", "a", "t", "e" >>

ITEM_NAME == "Item Name"
COL_VALUE == "numeric_mm0f6tc2"
COL_PROB == "color_mm0f30w0"
COL_STATUS == "color_mm0fqvp6"
COL_SECTOR == "color_mm0fe66m"
COL_STAGE == "color_mm0f24qr"
COL_PLANNED == "date_mm0fpdes"
COL_ACTUAL == "date_mm0fz6jw"
COL_WSECTOR == "color_mm0f5e45"
COL_EXEC == "color_mm0fcx9e"

-----------------------------------------------------------------------------
(* convert_board_to_dataframe *)

EmptyFrame == [columns |-> {}, rows |-> << >>]

\* the emptiness test left out
IsEmpty_Forgotten(df) == FALSE

\* DataFrame.empty
IsEmpty(df) == df.columns = {} \/ Len(df.rows) = 0

\* row[col["id"]] = col["text"], for each col in turn
RECURSIVE SetColumns(_, _)
SetColumns(row, cols) ==
    IF cols = << >> THEN row
    ELSE LET c == Head(cols)
             r == [k \in DOMAIN row \cup {c.id} |->
                      IF k = c.id THEN c.text ELSE row[k]]
         IN SetColumns(r, Tail(cols))

ItemRow(item) ==
    SetColumns([k \in {ITEM_NAME} |-> item.name], item.column_values)

\* pd.DataFrame(rows): the columns are the union of the rows' keys, a row
\* without a key holds NaN there
FrameOf(rows) ==
    LET cols == UNION {DOMAIN rows[i] : i \in DOMAIN rows}
    IN [columns |-> cols,
        rows |-> [i \in DOMAIN rows |->
                    [k \in cols |-> IF k \in DOMAIN rows[i] THEN rows[i][k] ELSE NaN]]]

\* df.replace("", np.nan)
ReplaceEmpty(df) ==
    [columns |-> df.columns,
     rows |-> [i \in DOMAIN df.rows |->
                 [k \in df.columns |->
                    IF df.rows[i][k] = << >> THEN NaN ELSE df.rows[i][k]]]]

convert_board_to_dataframe(raw_data) ==
    IF ~Truthy(DictGet(raw_data, "data")) THEN Ok(EmptyFrame)
    ELSE IF "boards" \notin DOMAIN raw_data["data"].v THEN Raise("KeyError")
    ELSE IF ~Truthy(raw_data["data"].v["boards"]) THEN Ok(EmptyFrame)
    ELSE LET items == raw_data["data"].v["boards"].v[1].items_page.items
             rows == [i \in DOMAIN items |-> ItemRow(items[i])]
         IN Ok(ReplaceEmpty(FrameOf(rows)))

-----------------------------------------------------------------------------
(* normalize_probability *)

Whitespace == {" ", "\t", "\n"}

\* str(prob): NaN prints as nan, None as None, text as itself
Str(cell) ==
    IF cell = NaN THEN << "n", "a", "n" >>
    ELSE IF cell = None THEN << "N", "o", "n", "e" >>
    ELSE cell

RECURSIVE LStrip(_)
LStrip(s) ==
    IF s # << >> /\ Head(s) \in Whitespace THEN LStrip(Tail(s)) ELSE s

RECURSIVE RStrip(_)
RStrip(s) ==
    IF s # << >> /\ s[Len(s)] \in Whitespace
    THEN RStrip(SubSeq(s, 1, Len(s) - 1)) ELSE s

\* lstrip() in place of strip()
Strip_LeftOnly(s) == LStrip(s)

\* str.strip()
Strip(s) == RStrip(LStrip(s))

\* the literal mapping, in tenths
ProbMapping == (T_High :> 8) @@ (T_Medium :> 5) @@ (T_Low :> 2)

DefaultProb == 3

normalize_probability(p) ==
    LET key == Strip(Str(p))
    IN IF key \in DOMAIN ProbMapping THEN ProbMapping[key] ELSE DefaultProb

-----------------------------------------------------------------------------
(* safe_parse_date and pd.to_numeric *)

NumNaN == [ok |-> FALSE, v |-> 0]
Num(n) == [ok |-> TRUE, v |-> n]

Digits == << "0", "1", "2", "3", "4", "5", "6", "7", "8", "9" >>

IsDigit(c) == \E d \in DOMAIN Digits : Digits[d] = c

DigitValue(c) == (CHOOSE d \in DOMAIN Digits : Digits[d] = c) - 1

RECURSIVE Decimal(_)
Decimal(s) ==
    IF s = << >> THEN 0
    ELSE 10 * Decimal(SubSeq(s, 1, Len(s) - 1)) + DigitValue(s[Len(s)])

AllDigits(s) == s # << >> /\ \A i \in DOMAIN s : IsDigit(s[i])

\* pd.to_numeric(errors="coerce") on one cell: a run of digits is its number,
\* a null or any other text of the model is NaN
to_numeric(cell) ==
    IF ~IsNull(cell) /\ AllDigits(cell) THEN Num(Decimal(cell)) ELSE NumNaN

DatePrefix == << "2", "0", "2", "4", "-", "0", "1", "-" >>

\* parser.parse inside try/except: a text 2024-01-dd is day dd of that
\* month; a null (TypeError) or any other text of the model (ParserError) is
\* None
safe_parse_date(date_str) ==
    IF /\ ~IsNull(date_str)
       /\ Len(date_str) = Len(DatePrefix) + 2
       /\ SubSeq(date_str, 1, Len(DatePrefix)) = DatePrefix
       /\ AllDigits(SubSeq(date_str, Len(DatePrefix) + 1, Len(date_str)))
       /\ Decimal(SubSeq(date_str, Len(DatePrefix) + 1, Len(date_str))) \in 1..31
    THEN Num(Decimal(SubSeq(date_str, Len(DatePrefix) + 1, Len(date_str))))
    ELSE NumNaN

-----------------------------------------------------------------------------
(* compute_deal_metrics *)

DealError == [error |-> "No deal data available."]
WorkError == [error |-> "No work order data available."]

EmptyDict == [k \in {} |-> 0]

\* Series.sum(skipna=True)
RECURSIVE SumSkipNa(_)
SumSkipNa(col) ==
    IF col = << >> THEN 0
    ELSE (IF Head(col).ok THEN Head(col).v ELSE 0) + SumSkipNa(Tail(col))

\* groupby(key)[val].sum(): rows with a null key are dropped, a NaN value
\* adds nothing to its group
RECURSIVE GroupSum(_, _, _)
GroupSum(rows, key, val) ==
    IF rows = << >> THEN EmptyDict
    ELSE LET rest == GroupSum(SubSeq(rows, 1, Len(rows) - 1), key, val)
             r == rows[Len(rows)]
             k == r.cells[key]
             n == IF r[val].ok THEN r[val].v ELSE 0
         IN IF IsNull(k) THEN rest
            ELSE [x \in DOMAIN rest \cup {k} |->
                    (IF x \in DOMAIN rest THEN rest[x] ELSE 0)
                    + (IF x = k THEN n ELSE 0)]

\* Series.value_counts(): nulls are not counted
RECURSIVE ValueCounts(_, _)
ValueCounts(rows, key) ==
    IF rows = << >> THEN EmptyDict
    ELSE LET rest == ValueCounts(SubSeq(rows, 1, Len(rows) - 1), key)
             k == rows[Len(rows)].cells[key]
         IN IF IsNull(k) THEN rest
            ELSE [x \in DOMAIN rest \cup {k} |->
                    (IF x \in DOMAIN rest THEN rest[x] ELSE 0)
                    + (IF x = k THEN 1 ELSE 0)]

\* lines 92-94: the derived columns value, prob and weighted of one row (they
\* are written into the caller's DataFrame, which ask does not read again)
DeriveDeal(row) ==
    LET value == to_numeric(row[COL_VALUE])
        p == normalize_probability(row[COL_PROB])
    IN [cells |-> row,
        value |-> value,
        prob |-> p,
        weighted |-> IF value.ok THEN Num(value.v * p) ELSE NumNaN]

\* line 97: df[df["color_mm0fqvp6"] == "Open"]
IsOpen(r) == r.cells[COL_STATUS] = T_Open

\* df[name]
Column(rows, name) == [i \in DOMAIN rows |-> rows[i][name]]

\* the filter on status left out
OnlyOpen_Unfiltered(rows) == rows

OnlyOpen(rows) == SelectSeq(rows, IsOpen)

\* lines 92-94 on the whole DataFrame: every row gets its three columns
DeriveAll(df) == [i \in DOMAIN df.rows |-> DeriveDeal(df.rows[i])]

\* what lines 92-94 have written when compute_deal_metrics is left: nothing
\* for the empty DataFrame (line 90 returns) or when line 92 or 93 raises
DerivedColumns(df) ==
    IF IsEmpty(df) \/ ~({COL_VALUE, COL_PROB} \subseteq df.columns) THEN << >>
    ELSE DeriveAll(df)

\* the error object returned when no row is left after the filter
compute_deal_metrics_ErrorWhenNoOpen(df) ==
    IF IsEmpty(df) THEN Ok(DealError)
    ELSE LET derived == [i \in DOMAIN df.rows |-> DeriveDeal(df.rows[i])]
             open == OnlyOpen(derived)
         IN IF open = << >> THEN Ok(DealError)
            ELSE Ok([total_pipeline |-> SumSkipNa(Column(open, "value")),
                     weighted_pipeline |-> SumSkipNa(Column(open, "weighted")),
                     sector_breakdown |-> GroupSum(open, COL_SECTOR, "value"),
                     stage_distribution |-> ValueCounts(open, COL_STAGE)])

\* total_pipeline summed over the DataFrame as it was before the filter
compute_deal_metrics_TotalBeforeFilter(df) ==
    IF IsEmpty(df) THEN Ok(DealError)
    ELSE LET derived == DeriveAll(df)
             open == OnlyOpen(derived)
         IN Ok([total_pipeline |-> SumSkipNa(Column(derived, "value")),
                weighted_pipeline |-> SumSkipNa(Column(open, "weighted")),
                sector_breakdown |-> GroupSum(open, COL_SECTOR, "value"),
                stage_distribution |-> ValueCounts(open, COL_STAGE)])

compute_deal_metrics(df) ==
    IF IsEmpty(df) THEN Ok(DealError)
    ELSE IF ~({COL_VALUE, COL_PROB, COL_STATUS, COL_SECTOR, COL_STAGE} \subseteq df.columns)
    THEN Raise("KeyError")
    ELSE LET derived == DeriveAll(df)
             open == OnlyOpen(derived)
         IN Ok([total_pipeline |-> SumSkipNa(Column(open, "value")),
                weighted_pipeline |-> SumSkipNa(Column(open, "weighted")),
                sector_breakdown |-> GroupSum(open, COL_SECTOR, "value"),
                stage_distribution |-> ValueCounts(open, COL_STAGE)])

-----------------------------------------------------------------------------
(* compute_work_order_metrics *)

\* lines 110-111: the two parsed dates of one row
DeriveWork(row) ==
    [cells |-> row,
     planned_date |-> safe_parse_date(row[COL_PLANNED]),
     actual_date |-> safe_parse_date(row[COL_ACTUAL])]

\* a column of None only keeps dtype object; one with a date is datetime64
IsObjectColumn(col) == \A i \in DOMAIN col : ~col[i].ok

\* a date that failed to parse counted as a delay of zero days
DelayDays_ZeroWhenMissing(r) ==
    IF r.actual_date.ok /\ r.planned_date.ok
    THEN Num(r.actual_date.v - r.planned_date.v) ELSE Num(0)

\* line 112 on two datetime64 columns: NaT on either side gives NaN
DelayDays(r) ==
    IF r.actual_date.ok /\ r.planned_date.ok
    THEN Num(r.actual_date.v - r.planned_date.v) ELSE NumNaN

WithDelay(r) ==
    [cells |-> r.cells, planned_date |-> r.planned_date,
     actual_date |-> r.actual_date, delay_days |-> DelayDays(r)]

CountValid(col) == Cardinality({i \in DOMAIN col : col[i].ok})

\* Series.mean(): sum and count of the non-NaN entries
Mean(col) == [num |-> SumSkipNa(col), den |-> CountValid(col)]

Zero == [num |-> 0, den |-> 1]

\* groupby(key)["delay_days"].mean().dropna(): null keys are dropped, and so
\* is a group whose mean is NaN
GroupMean(rows, key) ==
    LET keys == {rows[i].cells[key] : i \in DOMAIN rows} \ {NaN, None}
        group(k) == SelectSeq(rows, LAMBDA r : r.cells[key] = k)
        valid == {k \in keys : CountValid(Column(group(k), "delay_days")) > 0}
    IN [k \in valid |-> Mean(Column(group(k), "delay_days"))]

compute_work_order_metrics(df) ==
    IF IsEmpty(df) THEN Ok(WorkError)
    ELSE IF ~({COL_PLANNED, COL_ACTUAL} \subseteq df.columns) THEN Raise("KeyError")
    ELSE LET parsed == [i \in DOMAIN df.rows |-> DeriveWork(df.rows[i])]
             plannedObj == IsObjectColumn(Column(parsed, "planned_date"))
             actualObj == IsObjectColumn(Column(parsed, "actual_date"))
             rows == [i \in DOMAIN parsed |-> WithDelay(parsed[i])]
             delays == Column(rows, "delay_days")
         IN IF plannedObj /\ actualObj THEN Raise("AttributeError")
            ELSE IF plannedObj \/ actualObj THEN Raise("TypeError")
            ELSE IF ~({COL_WSECTOR, COL_EXEC} \subseteq df.columns) THEN Raise("KeyError")
            ELSE Ok([average_delay_days |->
                        IF CountValid(delays) > 0 THEN Mean(delays) ELSE Zero,
                     sector_delay |-> GroupMean(rows, COL_WSECTOR),
                     execution_status_distribution |-> ValueCounts(rows, COL_EXEC)])

-----------------------------------------------------------------------------
(* Inputs of the model *)

\* all sequences over S of length at most n
RECURSIVE SeqsUpTo(_, _)
SeqsUpTo(S, n) ==
    IF n = 0 THEN {<< >>}
    ELSE LET shorter == SeqsUpTo(S, n - 1)
         IN shorter \cup {Append(q, x) : q \in shorter, x \in S}

Date(tens, units) == DatePrefix \o << tens, units >>

Col(id, text) == [id |-> id, text |-> text]

DealItem(name, value, p, status, sector, stage) ==
    [name |-> name,
     column_values |-> << Col(COL_VALUE, value), Col(COL_PROB, p),
                          Col(COL_STATUS, status), Col(COL_SECTOR, sector),
                          Col(COL_STAGE, stage) >>]

WorkItem(name, planned, actual, sector, status) ==
    [name |-> name,
     column_values |-> << Col(COL_PLANNED, planned), Col(COL_ACTUAL, actual),
                          Col(COL_WSECTOR, sector), Col(COL_EXEC, status) >>]

\* items the deals board can hold: the Acme deal of the documentation, a
\* closed deal, an open deal with empty cells, an item without columns
DealItems ==
    { DealItem(<< "A" >>, << "1", "0", "0" >>, T_High, T_Open, T_Defense, T_Negotiation),
      DealItem(<< "B" >>, << "4", "0" >>, T_Low, T_Closed, T_Energy, T_Lead),
      DealItem(<< "C" >>, << >>, None, T_Open, << >>, T_Lead),
      [name |-> << "D" >>, column_values |-> << >>] }

WorkItems ==
    { WorkItem(<< "W" >>, Date("0", "3"), Date("0", "5"), T_Defense, T_Done),
      WorkItem(<< "X" >>, T_abc, Date("1", "2"), T_Energy, T_Late),
      WorkItem(<< "Y" >>, << >>, None, T_Defense, T_Late),
      [name |-> << "Z" >>, column_values |-> << >>] }

Board(items) == [items_page |-> [items |-> items]]

\* bodies the board API can answer with under status 200
RawResponses(pool) ==
    { [errors |-> JNull],
      [data |-> JNull],
      [data |-> JObj([account_id |-> JNull])],
      [data |-> JObj([boards |-> JNull])],
      [data |-> JObj([boards |-> JArr(<< >>)])] }
    \cup { [data |-> JObj([boards |-> JArr(<< Board(items) >>)])] :
             items \in SeqsUpTo(pool, MaxItems) }

\* a probability label with the stage such a deal is in
Prospects ==
    { << T_High, T_Negotiation >>, << T_Medium, T_Lead >>,
      << << " " >> \o T_Low, T_Negotiation >>, << NaN, T_Lead >> }

DealRow(value, p, status, sector, stage) ==
    [k \in {ITEM_NAME, COL_VALUE, COL_PROB, COL_STATUS, COL_SECTOR, COL_STAGE} |->
       CASE k = ITEM_NAME -> << "A" >>
         [] k = COL_VALUE -> value
         [] k = COL_PROB -> p
         [] k = COL_STATUS -> status
         [] k = COL_SECTOR -> sector
         [] k = COL_STAGE -> stage]

\* rows of a normalized deals Table (no cell is the empty text): the open
\* deals in every combination, the closed ones in a few
DealRows ==
    { DealRow(value, ps[1], T_Open, sector, ps[2]) :
        value \in { << "1", "0", "0" >>, << "4", "0" >>, T_abc },
        ps \in Prospects,
        sector \in { T_Defense, T_Energy, NaN } }
    \cup
    { DealRow(value, T_High, T_Closed, sector, T_Negotiation) :
        value \in { << "1", "0", "0" >>, T_abc },
        sector \in { T_Defense, T_Energy } }

\* an actual date with the execution status such an order has
Executions ==
    { << Date("0", "5"), T_Done >>, << Date("1", "2"), T_Late >>, << None, T_Late >> }

WorkRows ==
    { [k \in {ITEM_NAME, COL_PLANNED, COL_ACTUAL, COL_WSECTOR, COL_EXEC} |->
         CASE k = ITEM_NAME -> << "W" >>
           [] k = COL_PLANNED -> planned
           [] k = COL_ACTUAL -> ex[1]
           [] k = COL_WSECTOR -> sector
           [] k = COL_EXEC -> ex[2]] :
      planned \in { Date("0", "3"), Date("1", "0"), T_abc, NaN },
      ex \in Executions,
      sector \in { T_Defense, T_Energy, NaN } }

\* normalized Tables of at most MaxRows rows, the empty one included
Frames(pool) ==
    { IF rows = << >> THEN EmptyFrame ELSE FrameOf(rows) :
        rows \in SeqsUpTo(pool, MaxRows) }

Pads == SeqsUpTo(Whitespace, MaxPad)

\* arguments of normalize_probability: the labels and near misses, padded
ProbInputs ==
    { NaN, None }
    \cup { l \o core \o r :
             l \in Pads, r \in Pads,
             core \in { T_High, T_Medium, T_Low, T_high, << >>,
                        << "H", "I", "G", "H" >>, << "L", "o", "w", "x" >>,
                        << "H", "i", " ", "g", "h" >>, << "n", "a", "n" >>,
                        << "l", "o", "w" >>, << "M", "e", "d" >> } }

-----------------------------------------------------------------------------
(* Module start-up, lines 16-19 *)

Settings == {"MONDAY_API_KEY", "OPENROUTER_API_KEY", "DEALS_BOARD_ID", "WORK_BOARD_ID"}

\* what os.getenv finds for a setting
EnvValues == {"absent", "number", "text"}

\* int(os.getenv(name)): TypeError on None, ValueError on a text that is no
\* number
IntOf(v) ==
    IF v = "absent" THEN Raise(<< "TypeError" >>)
    ELSE IF v = "text" THEN Raise(<< "ValueError" >>)
    ELSE Ok(v)

\* the module body runs to its end
StartupSucceeds(e) ==
    ~IntOf(e["DEALS_BOARD_ID"]).raised /\ ~IntOf(e["WORK_BOARD_ID"]).raised

NotFetched == [b \in {"deals", "work"} |-> 0]

\* status codes an HTTP answer can carry
Statuses == {200, 401, 503}

NoCalls ==
    [c \in {"fetch_deals", "fetch_work", "convert", "compute_deals",
            "compute_work", "generate_summary"} |-> 0]

Startup ==
    /\ pc = "boot"
    /\ pc' = IF StartupSucceeds(env) THEN "serving" ELSE "startup_failed"
    /\ UNCHANGED << env, deals_raw, work_raw, deals_df, work_df, deal_metrics, deals_derived,
                    work_metrics, board_status, response, calls, summary_arg,
           summary_reply, prob, prob_out >>

-----------------------------------------------------------------------------
(* ask, lines 766-791 *)

\* lines 787-791: the except clause
ErrorResponse(e) == [status |-> 500, body |-> [error |-> e]]

\* line 785
OkResponse(answer) == [status |-> 200, body |-> [response |-> answer]]

Called(c) == [calls EXCEPT ![c] = @ + 1]

\* the status of the answer not looked at
fetch_board_data_Unchecked(status, text, body) == Ok(body)

\* lines 49-54: the body is returned under status 200, anything else raises
fetch_board_data(status, text, body) ==
    IF status # 200 THEN Raise(<< "Monday API Error: ", text >>) ELSE Ok(body)

\* a request arrives: ask is entered with nothing computed yet
Ask ==
    /\ pc \in {"serving", "done"}
    /\ pc' = "fetch_deals"
    /\ deals_raw' = Unset /\ work_raw' = Unset
    /\ deals_df' = Unset /\ work_df' = Unset
    /\ deal_metrics' = Unset /\ work_metrics' = Unset
    /\ deals_derived' = << >>
    /\ response' = Unset /\ summary_arg' = Unset /\ summary_reply' = Unset
    /\ board_status' = NotFetched
    /\ calls' = NoCalls
    /\ UNCHANGED << env, prob, prob_out >>

\* the rest of the request when `outcome` raised: no later line of the try
\* block runs
Except(outcome) ==
    /\ response' = ErrorResponse(outcome.exc)
    /\ pc' = "done"

\* line 768
FetchDeals ==
    /\ pc = "fetch_deals"
    /\ \E status \in Statuses, body \in RawResponses(DealItems) :
         LET r == fetch_board_data(status, "Unauthorized", body)
         IN /\ deals_raw' = r
            /\ board_status' = [board_status EXCEPT !["deals"] = status]
            /\ IF r.raised THEN Except(r)
               ELSE pc' = "fetch_work" /\ UNCHANGED response
    /\ calls' = Called("fetch_deals")
    /\ UNCHANGED << env, work_raw, deals_df, work_df, deal_metrics, deals_derived, work_metrics,
                    summary_arg, summary_reply, prob, prob_out >>

\* line 769
FetchWork ==
    /\ pc = "fetch_work"
    /\ \E status \in Statuses, body \in RawResponses(WorkItems) :
         LET r == fetch_board_data(status, "Unauthorized", body)
         IN /\ work_raw' = r
            /\ board_status' = [board_status EXCEPT !["work"] = status]
            /\ IF r.raised THEN Except(r)
               ELSE pc' = "convert_deals" /\ UNCHANGED response
    /\ calls' = Called("fetch_work")
    /\ UNCHANGED << env, deals_raw, deals_df, work_df, deal_metrics, deals_derived, work_metrics,
                    summary_arg, summary_reply, prob, prob_out >>

\* line 771
ConvertDeals ==
    /\ pc = "convert_deals"
    /\ LET r == convert_board_to_dataframe(deals_raw.value)
       IN /\ deals_df' = r
          /\ IF r.raised THEN Except(r)
             ELSE pc' = "convert_work" /\ UNCHANGED response
    /\ calls' = Called("convert")
    /\ UNCHANGED << env, board_status, deals_raw, work_raw, work_df, deal_metrics, deals_derived, work_metrics,
                    summary_arg, summary_reply, prob, prob_out >>

\* line 772
ConvertWork ==
    /\ pc = "convert_work"
    /\ LET r == convert_board_to_dataframe(work_raw.value)
       IN /\ work_df' = r
          /\ IF r.raised THEN Except(r)
             ELSE pc' = "compute_deals" /\ UNCHANGED response
    /\ calls' = Called("convert")
    /\ UNCHANGED << env, board_status, deals_raw, work_raw, deals_df, deal_metrics, deals_derived, work_metrics,
                    summary_arg, summary_reply, prob, prob_out >>

\* line 774
ComputeDeals ==
    /\ pc = "compute_deals"
    /\ LET r == compute_deal_metrics(deals_df.value)
       IN /\ deal_metrics' = r
          /\ IF r.raised THEN Except(r)
             ELSE pc' = "compute_work" /\ UNCHANGED response
    /\ deals_derived' = DerivedColumns(deals_df.value)
    /\ calls' = Called("compute_deals")
    /\ UNCHANGED << env, board_status, deals_raw, work_raw, deals_df, work_df, work_metrics,
                    summary_arg, summary_reply, prob, prob_out >>

\* line 775
ComputeWork ==
    /\ pc = "compute_work"
    /\ LET r == compute_work_order_metrics(work_df.value)
       IN /\ work_metrics' = r
          /\ IF r.raised THEN Except(r)
             ELSE pc' = "generate_summary" /\ UNCHANGED response
    /\ calls' = Called("compute_work")
    /\ UNCHANGED << env, board_status, deals_raw, work_raw, deals_df, work_df, deal_metrics, deals_derived,
                    summary_arg, summary_reply, prob, prob_out >>

FallbackSummary == "Error generating summary from OpenRouter."

\* a status other than 200 raised as the board fetch raises it
generate_summary_Raising(reply) ==
    IF reply.kind = "no_answer" THEN Raise(<< "ConnectionError" >>)
    ELSE IF reply.status # 200 THEN Raise(<< "OpenRouter API Error" >>)
    ELSE IF ~reply.has_content THEN Raise(<< "KeyError" >>)
    ELSE Ok(reply.content)

\* lines 158-163: what the completion endpoint did is `reply`: it did not
\* answer (requests.post raises), answered with a status other than 200, or
\* answered 200 with or without choices[0].message.content in the body
generate_summary(reply) ==
    IF reply.kind = "no_answer" THEN Raise(<< "ConnectionError" >>)
    ELSE IF reply.status # 200 THEN Ok(FallbackSummary)
    ELSE IF ~reply.has_content THEN Raise(<< "KeyError" >>)
    ELSE Ok(reply.content)

Replies ==
    { [kind |-> "no_answer", status |-> 0, has_content |-> FALSE, content |-> ""],
      [kind |-> "answer", status |-> 200, has_content |-> TRUE, content |-> "narrative"],
      [kind |-> "answer", status |-> 200, has_content |-> FALSE, content |-> ""],
      [kind |-> "answer", status |-> 429, has_content |-> FALSE, content |-> ""],
      [kind |-> "answer", status |-> 500, has_content |-> TRUE, content |-> "narrative"] }

\* lines 777-785
Summarize ==
    /\ pc = "generate_summary"
    /\ summary_arg' = [deal_metrics |-> deal_metrics.value,
                       work_order_metrics |-> work_metrics.value]
    /\ \E reply \in Replies :
         LET r == generate_summary(reply)
         IN /\ summary_reply' = reply
            /\ IF r.raised THEN Except(r)
               ELSE response' = OkResponse(r.value) /\ pc' = "done"
    /\ calls' = Called("generate_summary")
    /\ UNCHANGED << env, board_status, deals_raw, work_raw, deals_df, work_df, deal_metrics, deals_derived,
                    work_metrics, prob, prob_out >>

Init ==
    /\ env \in [Settings -> EnvValues]
    /\ env["MONDAY_API_KEY"] # "number" /\ env["OPENROUTER_API_KEY"] # "number"
    /\ pc = "boot"
    /\ deals_raw = Unset /\ work_raw = Unset
    /\ deals_df = Unset /\ work_df = Unset
    /\ deal_metrics = Unset /\ work_metrics = Unset
    /\ deals_derived = << >>
    /\ response = Unset /\ summary_arg = Unset /\ summary_reply = Unset
    /\ board_status = NotFetched
    /\ calls = NoCalls
    /\ prob = Unset /\ prob_out = Unset

Next ==
    \/ Startup
    \/ Ask
    \/ FetchDeals
    \/ FetchWork
    \/ ConvertDeals
    \/ ConvertWork
    \/ ComputeDeals
    \/ ComputeWork
    \/ Summarize

Spec == Init /\ [][Next]_vars

-----------------------------------------------------------------------------
(* The functions on their own: each is applied once to an argument drawn    *)
(* from the inputs above                                                    *)

\* an environment with the four settings present
AllSet ==
    [s \in Settings |->
       IF s \in {"DEALS_BOARD_ID", "WORK_BOARD_ID"} THEN "number" ELSE "text"]

InitDeals ==
    /\ env = AllSet
    /\ pc = "compute_deals"
    /\ deals_df \in {Ok(f) : f \in Frames(DealRows)}
    /\ deals_raw = Unset /\ work_raw = Unset /\ work_df = Unset
    /\ deal_metrics = Unset /\ work_metrics = Unset
    /\ deals_derived = << >>
    /\ response = Unset /\ summary_arg = Unset /\ summary_reply = Unset
    /\ board_status = NotFetched
    /\ calls = NoCalls
    /\ prob = Unset /\ prob_out = Unset

SpecDeals == InitDeals /\ [][ComputeDeals]_vars

InitWork ==
    /\ env = AllSet
    /\ pc = "compute_work"
    /\ work_df \in {Ok(f) : f \in Frames(WorkRows)}
    /\ deals_raw = Unset /\ work_raw = Unset /\ deals_df = Unset
    /\ deal_metrics = Unset /\ work_metrics = Unset
    /\ deals_derived = << >>
    /\ response = Unset /\ summary_arg = Unset /\ summary_reply = Unset
    /\ board_status = NotFetched
    /\ calls = NoCalls
    /\ prob = Unset /\ prob_out = Unset

SpecWork == InitWork /\ [][ComputeWork]_vars

\* line 93: normalize_probability applied to one cell
NormalizeProbability ==
    /\ pc = "normalize_probability"
    /\ prob_out' = normalize_probability(prob)
    /\ pc' = "returned"
    /\ UNCHANGED << env, deals_raw, work_raw, deals_df, work_df, deal_metrics, deals_derived,
                    work_metrics, board_status, response, calls, summary_arg,
                    summary_reply, prob >>

InitProb ==
    /\ env = AllSet
    /\ pc = "normalize_probability"
    /\ prob \in ProbInputs
    /\ prob_out = 0
    /\ deals_raw = Unset /\ work_raw = Unset
    /\ deals_df = Unset /\ work_df = Unset
    /\ deal_metrics = Unset /\ work_metrics = Unset
    /\ deals_derived = << >>
    /\ response = Unset /\ summary_arg = Unset /\ summary_reply = Unset
    /\ board_status = NotFetched
    /\ calls = NoCalls

SpecProb == InitProb /\ [][NormalizeProbability]_vars

-----------------------------------------------------------------------------
(* Properties *)

IsSet(x) == "unset" \notin DOMAIN x

Returned(x) == IsSet(x) /\ ~x.raised

DataAbsent(raw) == "data" \notin DOMAIN raw \/ raw["data"].t = "null"

HasData(raw) == "data" \in DOMAIN raw /\ raw["data"].t = "obj"

BoardsKeyAbsent(raw) == HasData(raw) /\ "boards" \notin DOMAIN raw["data"].v

HasBoards(raw) == HasData(raw) /\ "boards" \in DOMAIN raw["data"].v

BoardsEmpty(raw) ==
    /\ HasBoards(raw)
    /\ \/ raw["data"].v["boards"].t = "null"
       \/ raw["data"].v["boards"].t = "arr" /\ Len(raw["data"].v["boards"].v) = 0

ItemsEmpty(raw) ==
    /\ HasBoards(raw)
    /\ raw["data"].v["boards"].t = "arr"
    /\ Len(raw["data"].v["boards"].v) > 0
    /\ raw["data"].v["boards"].v[1].items_page.items = << >>

\* convert_board_to_dataframe was called on `raw` and `df` is what came of it
Converted(raw, df) == Returned(raw) /\ IsSet(df)

NormalizesToEmpty(raw, df) ==
    (Converted(raw, df)
       /\ (DataAbsent(raw.value) \/ BoardsEmpty(raw.value) \/ BoardsKeyAbsent(raw.value)))
    => df = Ok(EmptyFrame)

\* C1: for a raw response in which data is absent, or boards is an empty
\* list, or the boards key is absent from data, convert_board_to_dataframe
\* does not raise and returns the empty Table.
C1_EmptyTableNeverRaises ==
    /\ NormalizesToEmpty(deals_raw, deals_df)
    /\ NormalizesToEmpty(work_raw, work_df)

\* a response with data but without a boards key has been converted
C1_BoardsKeyAbsentConverted ==
    Converted(deals_raw, deals_df) /\ BoardsKeyAbsent(deals_raw.value)

\* a board answered under status 200 with no rows to give
EmptyPayload(raw) == DataAbsent(raw) \/ BoardsEmpty(raw) \/ ItemsEmpty(raw)

EmptyBoard(raw, df, metrics, err) ==
    (Returned(raw) /\ EmptyPayload(raw.value))
    => /\ IsSet(df) => df = Ok(EmptyFrame)
       /\ IsSet(metrics) => metrics = Ok(err)

BothEmpty ==
    /\ Returned(deals_raw) /\ EmptyPayload(deals_raw.value)
    /\ Returned(work_raw) /\ EmptyPayload(work_raw.value)

RECURSIVE SetSum(_, _)
SetSum(S, f) ==
    IF S = {} THEN 0
    ELSE LET x == CHOOSE y \in S : TRUE
         IN f[x] + SetSum(S \ {x}, f)

\* the rows of a Table taken one by one: the Open ones, their numbers
OpenRows(df) == {i \in DOMAIN df.rows : df.rows[i][COL_STATUS] = T_Open}

Parseable(df) == {i \in DOMAIN df.rows : to_numeric(df.rows[i][COL_VALUE]).ok}

ValueAt(df, i) == to_numeric(df.rows[i][COL_VALUE]).v

ProbAt(df, i) == normalize_probability(df.rows[i][COL_PROB])

OpenWith(df, col, label) == {i \in OpenRows(df) : df.rows[i][col] = label}

LabelsOfOpen(df, col) == {df.rows[i][col] : i \in OpenRows(df)} \ {NaN, None}

ExpectedDealMetrics(df) ==
    LET counted == OpenRows(df) \cap Parseable(df)
        value == [i \in DOMAIN df.rows |-> ValueAt(df, i)]
        weighted == [i \in DOMAIN df.rows |-> ValueAt(df, i) * ProbAt(df, i)]
    IN [total_pipeline |-> SetSum(counted, value),
        weighted_pipeline |-> SetSum(counted, weighted),
        sector_breakdown |->
            [s \in LabelsOfOpen(df, COL_SECTOR) |->
               SetSum(OpenWith(df, COL_SECTOR, s) \cap Parseable(df), value)],
        stage_distribution |->
            [s \in LabelsOfOpen(df, COL_STAGE) |->
               Cardinality(OpenWith(df, COL_STAGE, s))]]

AcmeFrame ==
    FrameOf(<< DealRow(<< "1", "0", "0" >>, T_High, T_Open, T_Defense, T_Negotiation) >>)

AcmeMetrics ==
    [total_pipeline |-> 100,
     weighted_pipeline |-> 800,
     sector_breakdown |-> (T_Defense :> 100),
     stage_distribution |-> (T_Negotiation :> 1)]

DealsComputed == Returned(deals_df) /\ IsSet(deal_metrics)

\* C3: on a non-empty deals Table compute_deal_metrics aggregates the Open
\* rows only: total_pipeline sums their parseable values, weighted_pipeline
\* sums value x probability, sector_breakdown maps each sector of an Open row
\* to the sum of its Open values, stage_distribution maps each stage of an
\* Open row to the number of Open rows in it; the Acme row alone gives 100,
\* 80 (800 tenths), {Defense: 100}, {Negotiation: 1}.
C3_OpenRowsOnly ==
    (DealsComputed /\ ~IsEmpty(deals_df.value))
    => /\ deal_metrics = Ok(ExpectedDealMetrics(deals_df.value))
       /\ deals_df.value = AcmeFrame => deal_metrics = Ok(AcmeMetrics)

\* the metrics of a Table with an Open and a Closed row, both with a number,
\* have been computed
C3_OpenAndClosedComputed ==
    /\ DealsComputed
    /\ Len(deals_df.value.rows) = 2
    /\ \E i, j \in DOMAIN deals_df.value.rows :
         /\ i \in OpenRows(deals_df.value) \cap Parseable(deals_df.value)
         /\ j \in Parseable(deals_df.value) \ OpenRows(deals_df.value)
    /\ Returned(deal_metrics)
    /\ deal_metrics.value.total_pipeline > 0

\* C4: on a non-empty deals Table without an Open row compute_deal_metrics
\* returns the metrics object with total_pipeline 0, weighted_pipeline 0 and
\* two empty mappings; the error object is returned for the empty Table only.
C4_NoOpenRowIsNotAnError ==
    DealsComputed
    => /\ (~IsEmpty(deals_df.value) /\ OpenRows(deals_df.value) = {})
            => deal_metrics = Ok([total_pipeline |-> 0,
                                  weighted_pipeline |-> 0,
                                  sector_breakdown |-> EmptyDict,
                                  stage_distribution |-> EmptyDict])
       /\ deal_metrics = Ok(DealError) <=> IsEmpty(deals_df.value)

\* the metrics of a Table whose rows are all Closed have been computed
C4_AllClosedComputed ==
    /\ DealsComputed
    /\ Len(deals_df.value.rows) = 2
    /\ \A i \in DOMAIN deals_df.value.rows : deals_df.value.rows[i][COL_STATUS] = T_Closed
    /\ Returned(deal_metrics)
    /\ "total_pipeline" \in DOMAIN deal_metrics.value

WorkComputed == Returned(work_df) /\ IsSet(work_metrics)

PlannedAt(df, i) == safe_parse_date(df.rows[i][COL_PLANNED])

ActualAt(df, i) == safe_parse_date(df.rows[i][COL_ACTUAL])

\* the rows with both dates parsed
BothParsed(df) == {i \in DOMAIN df.rows : PlannedAt(df, i).ok /\ ActualAt(df, i).ok}

NoDateParsed(df) ==
    \A i \in DOMAIN df.rows : ~PlannedAt(df, i).ok /\ ~ActualAt(df, i).ok

\* C5: on a non-empty work-order Table in which no planned and no actual date
\* parses, compute_work_order_metrics does not raise and returns
\* average_delay_days 0 and an empty sector_delay, with
\* execution_status_distribution still computed.
C5_NoDateParsedGivesZero ==
    (WorkComputed /\ ~IsEmpty(work_df.value) /\ NoDateParsed(work_df.value))
    => /\ Returned(work_metrics)
       /\ work_metrics.value.average_delay_days = Zero
       /\ work_metrics.value.sector_delay = EmptyDict
       /\ "execution_status_distribution" \in DOMAIN work_metrics.value

\* a quotient num / den equals the mean of `total` over `count` rows
IsMean(q, total, count) == q.den > 0 /\ count > 0 /\ q.num * count = total * q.den

SectorValid(df, s) == {i \in BothParsed(df) : df.rows[i][COL_WSECTOR] = s}

\* C6: on a work-order Table with a row whose two dates parse,
\* average_delay_days is the mean of actual - planned in days over exactly the
\* rows whose two dates parse, and sector_delay has a key for a sector exactly
\* when the sector has such a row, its value the mean over the sector's such
\* rows.
C6_MeanOverValidDelays ==
    (WorkComputed /\ BothParsed(work_df.value) # {})
    => LET df == work_df.value
           delay == [i \in DOMAIN df.rows |-> ActualAt(df, i).v - PlannedAt(df, i).v]
           sectors == {df.rows[i][COL_WSECTOR] : i \in BothParsed(df)} \ {NaN, None}
       IN /\ Returned(work_metrics)
          /\ IsMean(work_metrics.value.average_delay_days,
                    SetSum(BothParsed(df), delay), Cardinality(BothParsed(df)))
          /\ DOMAIN work_metrics.value.sector_delay = sectors
          /\ \A s \in sectors :
               IsMean(work_metrics.value.sector_delay[s],
                      SetSum(SectorValid(df, s), delay),
                      Cardinality(SectorValid(df, s)))

\* the metrics of a Table with a valid delay in one sector and a row without
\* one in another have been computed
C6_ValidAndFailedComputed ==
    /\ WorkComputed
    /\ Returned(work_metrics)
    /\ \E i, j \in DOMAIN work_df.value.rows :
         /\ i \in BothParsed(work_df.value)
         /\ j \notin BothParsed(work_df.value)
         /\ work_df.value.rows[i][COL_WSECTOR] = T_Defense
         /\ work_df.value.rows[j][COL_WSECTOR] = T_Energy
    /\ DOMAIN work_metrics.value.sector_delay = {T_Defense}

\* the argument is `label` between two runs of whitespace
TrimsTo(p, label) ==
    /\ ~IsNull(p)
    /\ \E i \in 1..Len(p) :
         /\ i + Len(label) - 1 <= Len(p)
         /\ SubSeq(p, i, i + Len(label) - 1) = label
         /\ \A k \in 1..Len(p) :
              (k < i \/ k > i + Len(label) - 1) => p[k] \in Whitespace

ProbReturned == pc = "returned"

\* C7: normalize_probability returns 0.8, 0.5 or 0.2 exactly when its
\* argument, trimmed of surrounding whitespace, is High, Medium or Low in that
\* very case, and 0.3 for anything else, NaN and None included: " High "
\* gives 0.8 and "high" gives 0.3.
C7_ProbabilityIsTotal ==
    ProbReturned
    => /\ prob_out = 8 <=> TrimsTo(prob, T_High)
       /\ prob_out = 5 <=> TrimsTo(prob, T_Medium)
       /\ prob_out = 2 <=> TrimsTo(prob, T_Low)
       /\ prob_out = 3 <=> ~\E label \in {T_High, T_Medium, T_Low} : TrimsTo(prob, label)
       /\ prob_out \in {2, 3, 5, 8}
       /\ prob = << " " >> \o T_High \o << " " >> => prob_out = 8
       /\ prob = T_high => prob_out = 3

\* " High " has been normalized to 0.8
C7_PaddedHighNormalized ==
    ProbReturned /\ prob = << " " >> \o T_High \o << " " >> /\ prob_out = 8

Raised(x) == IsSet(x) /\ x.raised

\* the step whose outcome is `x` raised, and the request ended on it
EndsWith500(x) ==
    Raised(x)
    => /\ pc = "done"
       /\ response = [status |-> 500, body |-> [error |-> x.exc]]

SummaryOutcome == generate_summary(summary_reply)

NonSuccess(status) == status \notin 200..299

NothingAfterDealsFetch ==
    /\ calls["fetch_work"] = 0 /\ calls["convert"] = 0
    /\ calls["compute_deals"] = 0 /\ calls["compute_work"] = 0
    /\ calls["generate_summary"] = 0
    /\ ~IsSet(work_raw) /\ ~IsSet(deals_df) /\ ~IsSet(summary_arg)

NothingAfterWorkFetch ==
    /\ calls["convert"] = 0
    /\ calls["compute_deals"] = 0 /\ calls["compute_work"] = 0
    /\ calls["generate_summary"] = 0
    /\ ~IsSet(deals_df) /\ ~IsSet(summary_arg)

\* C8: an exception raised by a fetch, by normalize, by a metrics computation
\* or by the summarization ends the request with status 500 and body
\* {"error": message}; a board answer that is not 2xx raises, a board is
\* fetched at most once in a request, and after a failed fetch no later step
\* of the request runs.
C8_ExceptionEndsRequestWith500 ==
    /\ EndsWith500(deals_raw) /\ EndsWith500(work_raw)
    /\ EndsWith500(deals_df) /\ EndsWith500(work_df)
    /\ EndsWith500(deal_metrics) /\ EndsWith500(work_metrics)
    /\ IsSet(summary_reply) => EndsWith500(SummaryOutcome)
    /\ (board_status["deals"] # 0 /\ NonSuccess(board_status["deals"])) => Raised(deals_raw)
    /\ (board_status["work"] # 0 /\ NonSuccess(board_status["work"])) => Raised(work_raw)
    /\ calls["fetch_deals"] <= 1 /\ calls["fetch_work"] <= 1
    /\ Raised(deals_raw) => NothingAfterDealsFetch
    /\ Raised(work_raw) => NothingAfterWorkFetch

\* the work board answered 503 after the deals board answered 200, and the
\* request was answered with status 500
C8_WorkFetchFailed ==
    /\ pc = "done"
    /\ board_status = [b \in {"deals", "work"} |-> IF b = "deals" THEN 200 ELSE 503]
    /\ Raised(work_raw)
    /\ response.status = 500
    /\ calls["fetch_deals"] = 1 /\ calls["fetch_work"] = 1

\* C9: when the completion endpoint answers with a status that is not 2xx,
\* generate_summary does not raise and returns the fixed text, and ask answers
\* {"response": "Error generating summary from OpenRouter."} under status 200.
C9_SummaryFailureDegrades ==
    (IsSet(summary_reply) /\ summary_reply.kind = "answer"
       /\ NonSuccess(summary_reply.status))
    => /\ pc = "done"
       /\ response = [status |-> 200,
                      body |-> [response |-> "Error generating summary from OpenRouter."]]

\* the completion endpoint answered 429 and the request was answered
C9_SummaryAnswered429 ==
    /\ pc = "done"
    /\ IsSet(summary_reply) /\ summary_reply.kind = "answer"
    /\ summary_reply.status = 429
    /\ response.status = 200

\* the module body ran to its end and the application takes requests
Serving == pc \notin {"boot", "startup_failed"}

\* C10: start-up fails whenever one of MONDAY_API_KEY, OPENROUTER_API_KEY,
\* DEALS_BOARD_ID, WORK_BOARD_ID is absent: the application never serves
\* requests with one of them missing.
C10_NeverServesUnconfigured ==
    Serving => \A s \in Settings : env[s] # "absent"

\* the Open rows whose value text is no number
OpenUnparseable(df) == OpenRows(df) \ Parseable(df)

\* the rows whose probability label is none of the three
Unmapped(df) ==
    {i \in DOMAIN df.rows :
       ~\E label \in {T_High, T_Medium, T_Low} : TrimsTo(df.rows[i][COL_PROB], label)}

\* C11, deals half: an Open row whose value text is no number adds nothing to
\* total_pipeline and weighted_pipeline, is counted in stage_distribution and
\* has its sector as a key of sector_breakdown; a row with an unmapped
\* probability label weighs 0.3 of its value.
C11_DealRowsKept ==
    (DealsComputed /\ ~IsEmpty(deals_df.value))
    => LET df == deals_df.value
           value == [i \in DOMAIN df.rows |-> ValueAt(df, i)]
           weight == [i \in DOMAIN df.rows |->
                        IF i \in Unmapped(df) THEN 3
                        ELSE normalize_probability(df.rows[i][COL_PROB])]
           weighted == [i \in DOMAIN df.rows |-> value[i] * weight[i]]
       IN /\ Returned(deal_metrics)
          /\ deal_metrics.value.total_pipeline
               = SetSum(OpenRows(df) \cap Parseable(df), value)
          /\ deal_metrics.value.weighted_pipeline
               = SetSum(OpenRows(df) \cap Parseable(df), weighted)
          /\ \A i \in OpenUnparseable(df) :
               /\ df.rows[i][COL_STAGE] \in DOMAIN deal_metrics.value.stage_distribution
               /\ deal_metrics.value.stage_distribution[df.rows[i][COL_STAGE]]
                    = Cardinality(OpenWith(df, COL_STAGE, df.rows[i][COL_STAGE]))
               /\ ~IsNull(df.rows[i][COL_SECTOR])
                    => df.rows[i][COL_SECTOR] \in DOMAIN deal_metrics.value.sector_breakdown

\* the metrics of a Table with one Open row, its value no number, its
\* probability label unmapped, have been computed
C11_UnparseableOpenRowComputed ==
    /\ DealsComputed
    /\ Len(deals_df.value.rows) = 1
    /\ OpenUnparseable(deals_df.value) = {1}
    /\ Unmapped(deals_df.value) = {1}
    /\ deals_df.value.rows[1][COL_SECTOR] = T_Energy
    /\ Returned(deal_metrics)
    /\ deal_metrics.value.sector_breakdown = (T_Energy :> 0)
    /\ deal_metrics.value.stage_distribution = (T_Lead :> 1)

\* the rows one of whose dates did not parse
BadDate(df) == (DOMAIN df.rows) \ BothParsed(df)

WithStatus(df, label) == {i \in DOMAIN df.rows : df.rows[i][COL_EXEC] = label}

\* C11, work-order half: a bad date never raises and never drops the row: on
\* a non-empty work-order Table compute_work_order_metrics returns, and every
\* row with a bad date is counted in execution_status_distribution.
C11_BadDateRowsKept ==
    (WorkComputed /\ ~IsEmpty(work_df.value))
    => /\ Returned(work_metrics)
       /\ \A i \in BadDate(work_df.value) :
            LET label == work_df.value.rows[i][COL_EXEC]
            IN /\ label \in DOMAIN work_metrics.value.execution_status_distribution
               /\ work_metrics.value.execution_status_distribution[label]
                    = Cardinality(WithStatus(work_df.value, label))

\* the same, on the Tables in which each date column has a date that parses
C11_BadDateRowsKeptBesideGoodOnes ==
    (WorkComputed
       /\ (\E i \in DOMAIN work_df.value.rows : PlannedAt(work_df.value, i).ok)
       /\ (\E j \in DOMAIN work_df.value.rows : ActualAt(work_df.value, j).ok))
    => C11_BadDateRowsKept

\* compute_deal_metrics with line 97 moved before lines 92-94: the rows are
\* filtered to Open first, and the three columns are derived for those only
compute_deal_metrics_FilterFirst(df) ==
    IF IsEmpty(df) THEN Ok(DealError)
    ELSE IF ~({COL_VALUE, COL_PROB, COL_STATUS, COL_SECTOR, COL_STAGE} \subseteq df.columns)
    THEN Raise("KeyError")
    ELSE LET kept == SelectSeq(df.rows, LAMBDA row : row[COL_STATUS] = T_Open)
             open == [i \in DOMAIN kept |-> DeriveDeal(kept[i])]
         IN Ok([total_pipeline |-> SumSkipNa(Column(open, "value")),
                weighted_pipeline |-> SumSkipNa(Column(open, "weighted")),
                sector_breakdown |-> GroupSum(open, COL_SECTOR, "value"),
                stage_distribution |-> ValueCounts(open, COL_STAGE)])

\* C12: compute_deal_metrics derives value, prob and weighted for every row,
\* the rows that are not Open included, before it filters to Open, and what it
\* returns equals what the variant that filters first and derives afterwards
\* returns, for every input Table.
C12_FilterAfterDerivationIsEquivalent ==
    DealsComputed
    => /\ deal_metrics = compute_deal_metrics_FilterFirst(deals_df.value)
       /\ (Returned(deal_metrics) /\ ~IsEmpty(deals_df.value))
            => /\ Len(deals_derived) = Len(deals_df.value.rows)
               /\ \A i \in DOMAIN deals_df.value.rows :
                    /\ deals_derived[i].cells = deals_df.value.rows[i]
                    /\ deals_derived[i].value = to_numeric(deals_df.value.rows[i][COL_VALUE])
                    /\ deals_derived[i].prob
                         = normalize_probability(deals_df.value.rows[i][COL_PROB])
                    /\ deals_derived[i].weighted.ok = deals_derived[i].value.ok
                    /\ deals_derived[i].weighted.v
                         = deals_derived[i].value.v * deals_derived[i].prob

\* the metrics of a Table with a Closed row before an Open one, both with a
\* number, have been computed, and the Closed row has its weighted value
C12_ClosedRowDerived ==
    /\ DealsComputed
    /\ Returned(deal_metrics)
    /\ Len(deals_df.value.rows) = 2
    /\ deals_df.value.rows[1][COL_STATUS] = T_Closed
    /\ deals_df.value.rows[2][COL_STATUS] = T_Open
    /\ Len(deals_derived) = 2
    /\ deals_derived[1].weighted = Num(800)
    /\ deals_derived[2].value.ok
    /\ deal_metrics.value.total_pipeline = deals_derived[2].value.v

====
